---------------------------- MODULE Spec2Model ----------------------------
(***************************************************************************)
(* Model of the "Interest Calculation" form script                         *)
(* (doctype/interest_calculation/interest_calculation.js).                 *)
(*                                                                         *)
(* The script registers three field-change handlers (approved_amount,      *)
(* interest, tenure) that all call calculate_interest_amount, and a setup  *)
(* handler that registers a lookup query for full_name.                    *)
(*                                                                         *)
(* Numbers are fixed-point: a number value carries its amount in           *)
(* hundredths (v = 100 * amount).  The inputs the model enumerates are     *)
(* whole amounts, for which a * i * t / 100 is exact in hundredths, so no  *)
(* rounding is modelled.  A field value is a record [t, v]: t = "num" for  *)
(* a number, "missing" (null / undefined), "blank" (""), "text" (a         *)
(* non-numeric string) or "nan" (the JavaScript NaN).                      *)
(*                                                                         *)
(* One step of the model is one event-handling turn of the single-threaded *)
(* host: the event, the handler it runs and every change event the         *)
(* handler's own writes raise.                                             *)
(***************************************************************************)
EXTENDS Integers, Sequences, FiniteSets, TLC

\* ---------------------------------------------------------------- bounds
\* Whole amounts 0..MaxNum are enumerated for every numeric input field.
MaxNum == 1
\* Change events one turn processes before the dispatcher gives up.
MaxTurnEvents == 4

\* ---------------------------------------------------------------- values
Num(n) == [t |-> "num", v |-> 100 * n]
Hundredths(h) == [t |-> "num", v |-> h]
NaN == [t |-> "nan", v |-> 0]
Missing == [t |-> "missing", v |-> 0]
Blank == [t |-> "blank", v |-> 0]
Text == [t |-> "text", v |-> 0]

IsNum(x) == x.t = "num"
NonNumeric == {Missing, Blank, Text}
Whole == 0 .. MaxNum

ApprovedAmounts == {Num(n) : n \in Whole \cup {-1, 1000, 2500}} \cup NonNumeric
Interests == {Num(n) : n \in Whole \cup {5}} \cup NonNumeric
Tenures == {Num(n) : n \in Whole \cup {2, 12}} \cup NonNumeric
Emails == {"a@x.com", "b@x.com"}
Names == {"Ama", "Ben"}
\* The entries the full_name link field can select from.
Users == { [name |-> "Ama", email |-> "a@x.com"],
           [name |-> "Ben", email |-> "b@x.com"],
           [name |-> "Bea", email |-> "b@x.com"] }

TriggerFields == {"approved_amount", "interest", "tenure"}
IdentityFields == {"email", "full_name"}
InputFields == TriggerFields \cup IdentityFields
DerivedFields == {"interest_amount", "final_amount"}

InputValues(f) ==
    CASE f = "approved_amount" -> ApprovedAmounts
      [] f = "interest" -> Interests
      [] f = "tenure" -> Tenures
      [] f = "email" -> Emails
      [] f = "full_name" -> Names

\* ------------------------------------------------------------ arithmetic
\* flt(v): the host's numeric coercion; null, "", non-numeric text and NaN
\* all become 0.
flt(x) == IF IsNum(x) THEN x ELSE Num(0)

\* JavaScript *, / 100 and + on numbers; NaN is contagious.
Mul(x, y) == IF IsNum(x) /\ IsNum(y) THEN Hundredths((x.v * y.v) \div 100) ELSE NaN
DivBy100(x) == IF IsNum(x) THEN Hundredths(x.v \div 100) ELSE NaN
Add(x, y) == IF IsNum(x) /\ IsNum(y) THEN Hundredths(x.v + y.v) ELSE NaN

\* -------------------------------------------------------------- the form
\* frm during one turn: the record, the change events raised and not yet
\* handled, those handled so far, the fields written through set_value,
\* whether a call threw, and the handler functions that ran.
Frm(doc) ==
    [doc |-> doc, queue |-> <<>>, handled |-> <<>>, written |-> {},
     error |-> FALSE, ran |-> <<>>]

\* frm.set_value(field, value): writes the field of the open record and
\* raises a change event for it when the value changed; throws when the
\* form has no such field.
set_value(frm, field, value) ==
    IF field \notin DOMAIN frm.doc
    THEN [frm EXCEPT !.error = TRUE]
    ELSE [frm EXCEPT !.doc[field] = value,
                     !.written = @ \cup {field},
                     !.queue = IF frm.doc[field] = value THEN @ ELSE Append(@, field)]

\* Faulty variants of calculate_interest_amount, used to show that the
\* properties below depend on the function as written.
\* The division by 100 is left out.
calculate_without_percent(frm) ==
    LET interest_amount ==
            Mul(Mul(flt(frm.doc.approved_amount), flt(frm.doc.interest)),
                flt(frm.doc.tenure))
        f0 == [frm EXCEPT !.ran = Append(@, "calculate_interest_amount")]
        f1 == set_value(f0, "interest_amount", interest_amount)
    IN  IF f1.error THEN f1
        ELSE set_value(f1, "final_amount",
                       Add(interest_amount, flt(f1.doc.approved_amount)))

\* final_amount is written without the principal.
calculate_without_principal(frm) ==
    LET interest_amount ==
            DivBy100(Mul(Mul(flt(frm.doc.approved_amount), flt(frm.doc.interest)),
                         flt(frm.doc.tenure)))
        f0 == [frm EXCEPT !.ran = Append(@, "calculate_interest_amount")]
        f1 == set_value(f0, "interest_amount", interest_amount)
    IN  IF f1.error THEN f1
        ELSE set_value(f1, "final_amount", interest_amount)

\* The write of final_amount is left out.
calculate_only_interest(frm) ==
    LET interest_amount ==
            DivBy100(Mul(Mul(flt(frm.doc.approved_amount), flt(frm.doc.interest)),
                         flt(frm.doc.tenure)))
        f0 == [frm EXCEPT !.ran = Append(@, "calculate_interest_amount")]
    IN  set_value(f0, "interest_amount", interest_amount)

\* The fields are used without flt.
calculate_without_flt(frm) ==
    LET interest_amount ==
            DivBy100(Mul(Mul(frm.doc.approved_amount, frm.doc.interest),
                         frm.doc.tenure))
        f0 == [frm EXCEPT !.ran = Append(@, "calculate_interest_amount")]
        f1 == set_value(f0, "interest_amount", interest_amount)
    IN  IF f1.error THEN f1
        ELSE set_value(f1, "final_amount",
                       Add(interest_amount, f1.doc.approved_amount))

\* The interest is added to the stored final_amount instead of the principal.
calculate_compounding(frm) ==
    LET interest_amount ==
            DivBy100(Mul(Mul(flt(frm.doc.approved_amount), flt(frm.doc.interest)),
                         flt(frm.doc.tenure)))
        f0 == [frm EXCEPT !.ran = Append(@, "calculate_interest_amount")]
        f1 == set_value(f0, "interest_amount", interest_amount)
    IN  IF f1.error THEN f1
        ELSE set_value(f1, "final_amount",
                       Add(interest_amount, flt(frm.doc.final_amount)))

\* The first write names a field the form does not have.
calculate_misspelled(frm) ==
    LET interest_amount ==
            DivBy100(Mul(Mul(flt(frm.doc.approved_amount), flt(frm.doc.interest)),
                         flt(frm.doc.tenure)))
        f0 == [frm EXCEPT !.ran = Append(@, "calculate_interest_amount")]
        f1 == set_value(f0, "intrest_amount", interest_amount)
    IN  IF f1.error THEN f1
        ELSE set_value(f1, "final_amount",
                       Add(interest_amount, flt(f1.doc.approved_amount)))

\* The function also normalises tenure in the record.
calculate_rewrites_tenure(frm) ==
    LET interest_amount ==
            DivBy100(Mul(Mul(flt(frm.doc.approved_amount), flt(frm.doc.interest)),
                         flt(frm.doc.tenure)))
        f0 == [frm EXCEPT !.ran = Append(@, "calculate_interest_amount"),
                          !.doc.tenure = flt(frm.doc.tenure)]
        f1 == set_value(f0, "interest_amount", interest_amount)
    IN  IF f1.error THEN f1
        ELSE set_value(f1, "final_amount",
                       Add(interest_amount, flt(f1.doc.approved_amount)))

calculate_interest_amount(frm) ==
    LET interest_amount ==
            DivBy100(Mul(Mul(flt(frm.doc.approved_amount), flt(frm.doc.interest)),
                         flt(frm.doc.tenure)))
        f0 == [frm EXCEPT !.ran = Append(@, "calculate_interest_amount")]
        f1 == set_value(f0, "interest_amount", interest_amount)
    IN  IF f1.error THEN f1
        ELSE set_value(f1, "final_amount",
                       Add(interest_amount, flt(f1.doc.approved_amount)))

\* Faulty handler tables: no handler for tenure; a handler for the derived
\* field interest_amount as well.
HandlersWithoutTenure ==
    [f \in TriggerFields \ {"tenure"} |-> "calculate_interest_amount"]

HandlersWithDerived ==
    [f \in TriggerFields \cup {"interest_amount"} |-> "calculate_interest_amount"]

\* The field-change handlers registered by frappe.ui.form.on.
Handlers ==
    [f \in TriggerFields |-> "calculate_interest_amount"]

\* The handler for one change event, if the script registered one.
trigger(frm, field) ==
    IF field \in DOMAIN Handlers
    THEN calculate_interest_amount(frm)
    ELSE frm

\* One event-handling turn: change events are handled in order until none
\* is pending (or a handler threw, or the turn's budget is used up).
RECURSIVE RunTurn(_, _)
RunTurn(frm, fuel) ==
    IF frm.queue = <<>> \/ frm.error \/ fuel = 0
    THEN frm
    ELSE RunTurn(trigger([frm EXCEPT !.queue = Tail(@),
                                     !.handled = Append(@, Head(frm.queue))],
                         Head(frm.queue)),
                 fuel - 1)

\* The filters the full_name query returns when the lookup runs.  The
\* registered callback reads frm.doc.email each time it is called, so it is
\* a function of the record's email at call time.
full_name_query_captured(doc) ==
    \* faulty variant: the email is read once, when the query is registered
    [e \in Emails |-> {<<"email", doc.email>>}]

full_name_query(doc) ==
    [e \in Emails |-> {<<"email", e>>}]

\* setup(frm): frm.set_query("full_name", callback).
setup(queries, doc) ==
    {q \in queries : q[1] # "full_name"} \cup {<<"full_name", full_name_query(doc)>>}

\* The filters in force for a link field: those of its registered query,
\* none without one.
get_filters(queries, field, doc) ==
    IF \E q \in queries : q[1] = field
    THEN (CHOOSE q \in queries : q[1] = field)[2][doc.email]
    ELSE {}

Matches(u, filters) == \A c \in filters : u[c[1]] = c[2]

\* ----------------------------------------------------------------- state
VARIABLES
    doc,        \* frm.doc, the open record
    queries,    \* the link-field queries registered with frm.set_query
    candidates, \* the entries the last full_name lookup offered
    event,      \* the event handled by the last turn
    email_at_setup, \* frm.doc.email as it was when setup ran
    entry,      \* the input fields as the last turn's handlers received them
    handled,    \* the change events the last turn dispatched, in order
    ran,        \* the handler functions the last turn ran, in order
    written,    \* the fields the last turn wrote through set_value
    pending,    \* change events the last turn left unhandled
    error       \* whether the last turn ended by a throw

vars == <<doc, queries, candidates, event, email_at_setup, entry, handled, ran, written, pending, error>>

Inputs(d) == [f \in InputFields |-> d[f]]

Calc(d) == calculate_interest_amount(Frm(d)).doc

\* A record as the host loads it: any input values; the stored derived
\* fields are what a recalculation would give, or absent, or zero.
LoadedDocs ==
    { [approved_amount |-> a, interest |-> i, tenure |-> t,
       email |-> e, full_name |-> n,
       interest_amount |-> d[1], final_amount |-> d[2]] :
          a \in ApprovedAmounts, i \in Interests, t \in Tenures,
          e \in Emails, n \in Names,
          d \in {<<Missing, Missing>>, <<Num(0), Num(0)>>} }
    \cup
    { Calc([approved_amount |-> a, interest |-> i, tenure |-> t,
            email |-> e, full_name |-> n,
            interest_amount |-> Missing, final_amount |-> Missing]) :
          a \in ApprovedAmounts, i \in Interests, t \in Tenures,
          e \in Emails, n \in Names }

Init ==
    /\ doc \in LoadedDocs
    /\ queries = {}
    /\ candidates = Users
    /\ event = "load"
    /\ email_at_setup = "none"
    /\ entry = Inputs(doc)
    /\ handled = <<>>
    /\ ran = <<>>
    /\ written = {}
    /\ pending = <<>>
    /\ error = FALSE

\* The form's setup event: fires once, before the user can act.
Setup ==
    /\ event = "load"
    /\ queries' = setup(queries, doc)
    /\ event' = "setup"
    /\ email_at_setup' = doc.email
    /\ entry' = Inputs(doc)
    /\ handled' = <<>>
    /\ ran' = <<"setup">>
    /\ written' = {}
    /\ pending' = <<>>
    /\ error' = FALSE
    /\ UNCHANGED <<doc, candidates>>

\* The user changes input field f to v: the host stores the value and
\* raises the field's change event, and the turn runs to its end.
Change(f, v) ==
    /\ event # "load"
    /\ v # doc[f]
    /\ \E frm \in {RunTurn([Frm([doc EXCEPT ![f] = v]) EXCEPT !.queue = <<f>>],
                              MaxTurnEvents)} :
           /\ doc' = frm.doc
           /\ entry' = Inputs([doc EXCEPT ![f] = v])
           /\ handled' = frm.handled
           /\ ran' = frm.ran
           /\ written' = frm.written
           /\ pending' = frm.queue
           /\ error' = frm.error
    /\ event' = f
    /\ UNCHANGED <<queries, candidates, email_at_setup>>

\* The user opens the full_name selector: the host asks the registered
\* query for its filters and offers the matching entries.
Lookup ==
    /\ event # "load"
    /\ candidates' = {u \in Users : Matches(u, get_filters(queries, "full_name", doc))}
    /\ event' = "lookup"
    /\ entry' = Inputs(doc)
    /\ handled' = <<>>
    /\ ran' = <<>>
    /\ written' = {}
    /\ pending' = <<>>
    /\ error' = FALSE
    /\ UNCHANGED <<doc, queries, email_at_setup>>

Next ==
    \/ Setup
    \/ \E f \in InputFields : \E v \in InputValues(f) : Change(f, v)
    \/ Lookup

Spec == Init /\ [][Next]_vars

\* ------------------------------------------------------------ properties
Recalculated == event \in TriggerFields
Numeric(d) == \A f \in TriggerFields : IsNum(d[f])
NonNegative(d) == \A f \in TriggerFields : d[f].v >= 0
CalcName == "calculate_interest_amount"

\* The whole amount A of an input that holds one (v = 100 * A).
Units(x) == x.v \div 100

\* interest_amount = A*I*T/100 and final_amount = interest_amount + A, for
\* whole A, I and T; in hundredths the interest amount is A*I*T.
FormulasHold(d) ==
    /\ IsNum(d.interest_amount)
    /\ IsNum(d.final_amount)
    /\ \A f \in TriggerFields : d[f].v = 100 * Units(d[f])
    /\ d.interest_amount.v = Units(d.approved_amount) * Units(d.interest) * Units(d.tenure)
    /\ d.final_amount.v = d.interest_amount.v + d.approved_amount.v

\* C1: after calculate_interest_amount has run on non-negative numeric
\* approved_amount A, interest I and tenure T, interest_amount = A*I*T/100
\* and final_amount = interest_amount + A; 1000, 5, 2 give 100 and 1100 and
\* 2500, 0, 12 give 0 and 2500.
C1_Formula ==
    (Recalculated /\ Numeric(doc) /\ NonNegative(doc)) =>
        /\ FormulasHold(doc)
        /\ (doc.approved_amount = Num(1000) /\ doc.interest = Num(5) /\ doc.tenure = Num(2))
              => (doc.interest_amount = Num(100) /\ doc.final_amount = Num(1100))
        /\ (doc.approved_amount = Num(2500) /\ doc.interest = Num(0) /\ doc.tenure = Num(12))
              => (doc.interest_amount = Num(0) /\ doc.final_amount = Num(2500))

C1_Witness ==
    /\ Recalculated
    /\ doc.approved_amount = Num(1000) /\ doc.interest = Num(5) /\ doc.tenure = Num(2)
    /\ doc.interest_amount = Num(100) /\ doc.final_amount = Num(1100)

\* C2 (as claimed): in every reachable state, from any loaded record,
\* whenever the three inputs are numeric the derived fields equal the
\* formulas.
C2_Original == Numeric(doc) => FormulasHold(doc)

\* C2 (amended): every turn that handles a change of approved_amount,
\* interest or tenure ends with the derived fields equal to the formulas
\* whenever the inputs are numeric, and every other turn keeps them so; a
\* record loaded with other derived values keeps them until such a change.
C2_Amended == [][(event' \in TriggerFields \/ C2_Original) => C2_Original']_vars

C2_Witness ==
    /\ event \in IdentityFields
    /\ Numeric(doc) /\ doc.approved_amount = Num(-1) /\ doc.interest = Num(5)
    /\ doc.tenure = Num(12)
    /\ doc.interest_amount = Hundredths(-60) /\ doc.final_amount = Hundredths(-160)

\* C3: no state shows the new interest_amount next to the final_amount from
\* before the recalculation: a turn that replaces interest_amount ends with
\* final_amount = interest_amount + flt(approved_amount), and a turn writes
\* either both derived fields or neither.
C3_Formula ==
    [][ /\ (doc'.interest_amount # doc.interest_amount) =>
              (doc'.final_amount = Add(doc'.interest_amount, flt(doc'.approved_amount)))
        /\ written' \in {{}, DerivedFields} ]_vars

C3_Witness ==
    /\ Recalculated
    /\ written = DerivedFields
    /\ handled = <<event, "interest_amount", "final_amount">>
    /\ doc.interest_amount = Num(100) /\ doc.final_amount = Num(1100)

\* C4: a turn in which approved_amount, interest or tenure changes runs
\* calculate_interest_amount for that change, the same function for each of
\* the three fields, and the turn ends with both writes done, no change
\* event left pending and no throw.
C4_Formula ==
    [][ \A f \in TriggerFields :
          (doc'[f] # doc[f]) =>
              /\ event' = f
              /\ handled'[1] = f
              /\ ran' = <<CalcName>>
              /\ written' = DerivedFields
              /\ pending' = <<>>
              /\ ~error' ]_vars

C4_Witness ==
    /\ event = "tenure"
    /\ ran = <<CalcName>>
    /\ doc.tenure = Num(12)
    /\ doc.interest_amount = Num(600)
    /\ pending = <<>>

\* C5: when recalculation runs with a missing, blank or non-numeric field,
\* that field counts as 0: without interest or tenure interest_amount = 0
\* and final_amount = approved_amount (0 when that is not numeric either);
\* without approved_amount both are 0.
C5_Formula ==
    Recalculated =>
        /\ (~IsNum(doc.interest) \/ ~IsNum(doc.tenure)) =>
              /\ doc.interest_amount = Num(0)
              /\ doc.final_amount =
                    IF IsNum(doc.approved_amount) THEN doc.approved_amount ELSE Num(0)
        /\ ~IsNum(doc.approved_amount) =>
              (doc.interest_amount = Num(0) /\ doc.final_amount = Num(0))
        /\ \A f \in TriggerFields :
              (~IsNum(doc[f]) /\ Numeric([doc EXCEPT ![f] = Num(0)])) =>
                  FormulasHold([doc EXCEPT ![f] = Num(0)])

C5_Witness ==
    /\ Recalculated
    /\ doc.approved_amount = Num(1000) /\ doc.interest = Text /\ doc.tenure = Num(2)
    /\ doc.interest_amount = Num(0) /\ doc.final_amount = Num(1000)

\* C6: a second calculate_interest_amount on unchanged inputs leaves
\* interest_amount and final_amount as the first call left them (and raises
\* no change event).
C6_Formula ==
    LET first == calculate_interest_amount(Frm(doc))
        second == calculate_interest_amount(Frm(first.doc))
    IN  /\ second.doc = first.doc
        /\ second.queue = <<>>
        /\ Recalculated => first.doc = doc

C6_Witness ==
    /\ Recalculated
    /\ doc.interest_amount = Num(100) /\ doc.final_amount = Num(1100)
    /\ calculate_interest_amount(Frm(doc)).doc = doc

\* C7: recalculation never fails: whatever approved_amount, interest and
\* tenure hold (missing, blank, non-numeric, zero, negative, large), the
\* turn ends without a throw and has written both interest_amount and
\* final_amount.
C7_Formula ==
    Recalculated =>
        /\ ~error
        /\ DerivedFields \subseteq written
        /\ ran # <<>>

C7_Witness ==
    /\ Recalculated
    /\ doc.approved_amount = Num(-1) /\ doc.interest = Text /\ doc.tenure = Missing
    /\ ~error
    /\ written = DerivedFields

\* C8: once setup has registered the query, every full_name lookup offers
\* exactly the entries whose email equals the record's email at the time of
\* the lookup, also after the email was changed since setup.
C8_Formula ==
    event = "lookup" => candidates = {u \in Users : u.email = doc.email}

C8_Witness ==
    /\ event = "lookup"
    /\ email_at_setup = "a@x.com"
    /\ doc.email = "b@x.com"
    /\ candidates = {u \in Users : u.email = "b@x.com"}

\* C9: the handlers change only the two derived fields: after every turn
\* approved_amount, interest, tenure, email and full_name are as the turn's
\* handlers received them, and the setup and lookup turns leave the whole
\* record, interest_amount and final_amount included, unchanged.
C9_Formula ==
    [][ /\ Inputs(doc') = entry'
        /\ written' \subseteq DerivedFields
        /\ (event' \in {"setup", "lookup"}) => (doc' = doc) ]_vars

C9_Witness ==
    /\ Recalculated
    /\ written = DerivedFields
    /\ Inputs(doc) = entry
    /\ doc.tenure = Blank
    /\ doc.final_amount = Num(2500)

\* C10: handling one edit ends after exactly one recalculation: the change
\* events raised by the writes of interest_amount and final_amount are
\* dispatched in the same turn and run no handler, and nothing is left
\* pending.
C10_Formula ==
    /\ pending = <<>>
    /\ Len(handled) < MaxTurnEvents
    /\ Recalculated => ran = <<CalcName>>
    /\ event \in IdentityFields \cup {"lookup", "load"} => ran = <<>>

C10_Witness ==
    /\ Recalculated
    /\ handled = <<event, "interest_amount", "final_amount">>
    /\ ran = <<CalcName>>
    /\ pending = <<>>

=============================================================================
